---- MODULE Spec2Model ----
(***************************************************************************)
(* State-machine model of demo-artwork/upgrade.py: the migration of a      *)
(* legacy Folder/Layer document tree into a flat node-graph mapping.       *)
(* The recursion of update_layer is modelled with an explicit call stack;  *)
(* each frame holds the locals of one call.                                *)
(***************************************************************************)
EXTENDS Integers, Sequences, FiniteSets, TLC

\* document   the legacy root data that json.load returns (fresh at each run)
\* run        how many migrate calls have started
\* mpc        "idle" between runs, "running" in a run, "aborted" after an
\*            uncaught exception has ended the process
\* new_id     the next id the gen_id generator yields
\* y_position the next y the gen_y generator yields
\* new_nodes  the mapping from str(id) to node built by the run
\* stack      the active update_layer calls, innermost last
\* hashorder  the order in which the run iterates a set of str keys
\* written    the mappings of the documents written so far, one per run
VARIABLES document, run, mpc, new_id, y_position, new_nodes, stack, hashorder, written

vars == <<document, run, mpc, new_id, y_position, new_nodes, stack, hashorder, written>>

\* ------------------------------------------------------------------ bounds
\* Largest number of children of one Folder of an input document.
MaxChildren == 2
\* Largest number of Layer leaves of an input document.
MaxLayers == 2

\* --------------------------------------------------------- program constants
FirstId == 42
FirstY == 7
YStep == 3
IndentStep == 5
CullGap == 8
NumRuns == 2
RootRef == 42
\* Python's None, kept apart from every id and position the program computes.
None == -1

\* ------------------------------------------------------------- conversions
\* str(n) of a non-negative integer id.
Str(n) == ToString(n)

\* int(s) of a key of a network's node mapping.
ToInt(s) == CHOOSE n \in 0..9 : ToString(n) = s

\* Python truthiness of an id-or-None value (None and 0 are both falsy).
Truthy(node_id) == node_id # None /\ node_id # 0

\* dict assignment d[k] = v
Put(d, k, v) == [x \in (DOMAIN d) \cup {k} |-> IF x = k THEN v ELSE d[x]]

EmptyDict == [x \in {} |-> 0]

Range(s) == {s[i] : i \in DOMAIN s}

\* ------------------------------------------------------------- generators
\* The ids zip() draws from the id generator for n keys, and the generator
\* after it: zip asks the key iterator first, so it stops without drawing.
TakeIds(gen, n) == [i \in 1..n |-> gen + i - 1]

AfterZipMut(gen, n) == gen

AfterZip(gen, n) == gen + n

\* The generator after map(lambda x, _: x, new_id, layers): map asks the id
\* generator first, so the draw that finds layers exhausted is discarded.
AfterMapMut(gen, n) == gen + n

AfterMap(gen, n) == gen + n + 1

\* gen_id() as reassigned at the start of migrate.
FreshIdGenMut(cur) == cur

FreshIdGen(cur) == FirstId

\* ------------------------------------------------------------ input space
FootprintComposition == "Concrete:graphene_core::transform::Footprint:72:8"

NodeRef(id) == [Node |-> [node_id |-> id, output_index |-> 0, lambda |-> FALSE]]

Literal(tagged_value, exposed) == [Value |-> [tagged_value |-> tagged_value, exposed |-> exposed]]

EmptyGroup == Literal("GraphicGroup:[]", TRUE)

LegacyNode(name, inputs, x, y) ==
    [name |-> name, inputs |-> inputs, manual_composition |-> "None",
     has_primary_output |-> TRUE, implementation |-> "Unresolved:legacy",
     metadata |-> [position |-> <<x, y>>]]

\* A legacy layer network: the Output node under key "0" at X = 108, fed by
\* node 1 at X = 100; node i at X = 100 - 8(i-1) is fed by node i+1.
Chain(names) ==
    LET n == Len(names)
        key(i) == Str(i)
    IN [nodes |-> [k \in {key(i) : i \in 0..n} |->
                     LET i == ToInt(k) IN
                     IF i = 0
                     THEN LegacyNode("Output", <<NodeRef(1)>>, 108, 2)
                     ELSE LegacyNode(names[i],
                                     IF i < n THEN <<NodeRef(i + 1)>>
                                              ELSE <<Literal("None", FALSE)>>,
                                     100 - 8 * (i - 1), 2 + i)],
        outputs |-> <<[node_id |-> 0, node_output_index |-> 0]>>]

Networks == {Chain(<<"Transform">>), Chain(<<"Transform", "Shape">>),
             Chain(<<"Cull", "Shape">>), Chain(<<"Shape", "Shape">>)}

LayerData == {[Layer |-> [network |-> net]] : net \in Networks}

FolderOf(children) == [Folder |-> [layers |-> [i \in DOMAIN children |-> [data |-> children[i]]]]]

RECURSIVE Leaves(_)
Leaves(data) ==
    IF "Layer" \in DOMAIN data THEN 1
    ELSE LET ls == data.Folder.layers
             RECURSIVE Sum(_)
             Sum(i) == IF i = 0 THEN 0 ELSE Leaves(ls[i].data) + Sum(i - 1)
         IN Sum(Len(ls))

\* The Folders of at most MaxChildren children drawn from S, with at most
\* MaxLayers Layer leaves in all.
RECURSIVE FoldersOfLen(_, _)
FoldersOfLen(S, n) ==
    IF n = 0 THEN {FolderOf(<<>>)}
    ELSE {FolderOf([i \in 1..n |-> IF i < n THEN p[1].Folder.layers[i].data ELSE p[2]]) :
            p \in {q \in FoldersOfLen(S, n - 1) \X S : Leaves(q[1]) + Leaves(q[2]) <= MaxLayers}}

FoldersOf(S) == UNION {FoldersOfLen(S, n) : n \in 0..MaxChildren}

\* The input documents: a Layer, or a Folder of Layers and of Folders of Layers.
Documents == LayerData \cup FoldersOf(LayerData \cup FoldersOf(LayerData))

\* Iteration orders of a set of str keys: one per hash seed of the interpreter.
KeyUniverse == UNION {{k \in DOMAIN net.nodes : net.nodes[k].name # "Output"} : net \in Networks}

HashOrders == {s \in [1..Cardinality(KeyUniverse) -> KeyUniverse] : Range(s) = KeyUniverse}

\* The order in which a set S of keys is iterated under hash order h.
RECURSIVE Pick(_, _, _)
Pick(h, S, i) ==
    IF i > Len(h) THEN <<>>
    ELSE IF h[i] \in S THEN <<h[i]>> \o Pick(h, S, i + 1) ELSE Pick(h, S, i + 1)

SetOrder(h, S) == Pick(h, S, 1)

\* ------------------------------------------------------------------ frames
NoNetwork == [nodes |-> EmptyDict, outputs |-> <<>>]

\* The locals of one update_layer(data, indent, layer_node_id, next_id) call.
Frame(data, indent, layer_node_id, next_id) ==
    [data |-> data, indent |-> indent, layer_node_id |-> layer_node_id,
     next_id |-> next_id, pc |-> "enter", y |-> None, output |-> None,
     new_layer_ids |-> <<>>, index |-> 0, network |-> NoNetwork,
     nodes |-> <<>>, new_ids |-> <<>>, shift_left |-> None, k |-> 0]

Top == stack[Len(stack)]

SetTop(f) == [stack EXCEPT ![Len(stack)] = f]

Running == mpc = "running" /\ stack # <<>>

\* ------------------------------------------------------- update_layer parts
\* next_index of the loop over the reversed children.
NextIndexMut(new_layer_ids, index) ==
    IF index + 2 < Len(new_layer_ids) THEN new_layer_ids[index + 2] ELSE None

NextIndex(new_layer_ids, index) ==
    IF index + 1 < Len(new_layer_ids) THEN new_layer_ids[index + 2] ELSE None

\* The child visited at loop index `index` of enumerate(reversed(layers)).
ReversedAtMut(layers, index) == layers[index + 1]

ReversedAt(layers, index) == layers[Len(layers) - index]

\* The surviving node keys: every key but those of nodes named "Output".
Surviving(network) == {old_id \in DOMAIN network.nodes : network.nodes[old_id].name # "Output"}

\* dict(zip(map(int, nodes), new_id)) for nodes iterated in the order `order`.
ZipIds(order, gen) ==
    [o \in {ToInt(order[i]) : i \in DOMAIN order} |->
        TakeIds(gen, Len(order))[CHOOSE i \in DOMAIN order : ToInt(order[i]) = o]]

OutputNodeOf(network) == network.nodes[Str(network.outputs[1].node_id)]

RewriteInputs(inputs, new_ids) ==
    [i \in DOMAIN inputs |->
        IF "Node" \in DOMAIN inputs[i]
        THEN [Node |-> [inputs[i].Node EXCEPT !.node_id = new_ids[@]]]
        ELSE inputs[i]]

TransformFix(node) ==
    IF node.name = "Transform"
    THEN [node EXCEPT !.implementation = "Unresolved:graphene_core::transform::TransformNode<_, _, _, _, _, _>",
                      !.manual_composition = FootprintComposition]
    ELSE node

\* any(name == "Cull") over the surviving nodes of the network as it is now.
HasCull(network, nodes) == \E i \in DOMAIN nodes : network.nodes[nodes[i]].name = "Cull"

\* Lines 57-58: the Shape node as it is deep-copied under the fresh id.
ShapeCopy(node, y, shift_left, indent) ==
    [node EXCEPT !.metadata.position = <<@[1] - (shift_left + CullGap + indent), y>>]

\* Line 68: the X of the renamed node, restored after the copy.
RestoreXMut(x, shift_left, indent) == x

RestoreX(x, shift_left, indent) == x + (shift_left + CullGap + indent)

\* Lines 63-68: the original node turned into the Cull node.
CullOf(copy, shape, shift_left, indent) ==
    [copy EXCEPT !.name = "Cull",
                 !.inputs = <<NodeRef(shape)>>,
                 !.manual_composition = FootprintComposition,
                 !.has_primary_output = TRUE,
                 !.implementation = "Unresolved:graphene_core::transform::CullNode<_>",
                 !.metadata.position[1] = RestoreX(@, shift_left, indent)]

\* Line 71: the final X of a node of the network.
FinalXMut(x, shift_left, indent) == x - shift_left

FinalX(x, shift_left, indent) == x - (shift_left + indent)

\* Lines 70-71.
Place(node, y, shift_left, indent) ==
    [node EXCEPT !.metadata.position = <<FinalX(@[1], shift_left, indent), y>>]

node_to_input(node_id) == IF Truthy(node_id) THEN NodeRef(node_id) ELSE EmptyGroup

\* The Layer wrapper node of lines 81-338; its fixed inner network is one value.
LayerWrapper(output, next_id, indent, y) ==
    [name |-> "Layer",
     inputs |-> <<node_to_input(output),
                  Literal("String:", FALSE),
                  Literal("BlendMode:Normal", FALSE),
                  Literal("F32:100.0", FALSE),
                  Literal("Bool:True", FALSE),
                  Literal("Bool:False", FALSE),
                  Literal("Bool:False", FALSE),
                  node_to_input(next_id)>>,
     manual_composition |-> "None",
     has_primary_output |-> TRUE,
     implementation |-> "Network:ToGraphicElement,Monitor,ConstructLayer",
     metadata |-> [position |-> <<-indent, y>>]]

\* The root Output node of lines 352-544.
OutputNode ==
    [name |-> "Output",
     inputs |-> <<NodeRef(RootRef), [Network |-> "Concrete:EditorApi:176:8"]>>,
     manual_composition |-> "None",
     has_primary_output |-> TRUE,
     implementation |-> "Network:EditorApi,CreateCanvas,Cache,RenderNode",
     metadata |-> [position |-> <<8, 4>>]]

\* ----------------------------------------------------------------- actions
Init ==
    /\ document \in Documents
    /\ run = 0
    /\ mpc = "idle"
    /\ new_id = FirstId
    /\ y_position = FirstY
    /\ new_nodes = EmptyDict
    /\ stack = <<>>
    /\ hashorder = CHOOSE h \in HashOrders : TRUE
    /\ written = <<>>

\* migrate, lines 342-350: reset the generators and the mapping, load the
\* document, draw the root id and call update_layer on the root.
MigrateStart ==
    /\ mpc = "idle"
    /\ run < NumRuns
    /\ run' = run + 1
    /\ mpc' = "running"
    /\ \E h \in HashOrders : hashorder' = h
    /\ y_position' = FirstY
    /\ new_nodes' = EmptyDict
    /\ LET gen == FreshIdGen(new_id)
       IN /\ new_id' = gen + 1
          /\ stack' = <<Frame(document, 0, gen, None)>>
    /\ UNCHANGED <<document, written>>

\* update_layer, lines 23-24.
Enter ==
    /\ Running
    /\ Top.pc = "enter"
    /\ y_position' = y_position + YStep
    /\ stack' = SetTop([Top EXCEPT !.y = y_position,
                                   !.output = None,
                                   !.pc = IF "Folder" \in DOMAIN Top.data THEN "reserve" ELSE "layer"])
    /\ UNCHANGED <<document, run, mpc, new_id, new_nodes, hashorder, written>>

\* update_layer, line 26: reserve one id per child.
FolderReserve ==
    /\ Running
    /\ Top.pc = "reserve"
    /\ LET n == Len(Top.data.Folder.layers)
       IN /\ stack' = SetTop([Top EXCEPT !.new_layer_ids = TakeIds(new_id, n),
                                         !.index = 0,
                                         !.pc = "loop"])
          /\ new_id' = AfterMap(new_id, n)
    /\ UNCHANGED <<document, run, mpc, y_position, new_nodes, hashorder, written>>

\* update_layer, lines 27-31: one iteration of the loop calls update_layer on
\* the next child of the reversed list.
FolderCall ==
    /\ Running
    /\ Top.pc = "loop"
    /\ Top.index < Len(Top.data.Folder.layers)
    /\ LET layer == ReversedAt(Top.data.Folder.layers, Top.index)
           next_index == NextIndex(Top.new_layer_ids, Top.index)
       IN stack' = Append(stack, Frame(layer.data, Top.indent + IndentStep,
                                       Top.new_layer_ids[Top.index + 1], next_index))
    /\ UNCHANGED <<document, run, mpc, new_id, y_position, new_nodes, hashorder, written>>

\* update_layer, line 32: output = new_layer_ids[0]; an empty list raises
\* IndexError, which nothing catches.
FolderOutput ==
    /\ Running
    /\ Top.pc = "loop"
    /\ Top.index = Len(Top.data.Folder.layers)
    /\ IF Top.new_layer_ids = <<>>
       THEN mpc' = "aborted" /\ stack' = stack
       ELSE /\ mpc' = mpc
            /\ stack' = SetTop([Top EXCEPT !.output = Top.new_layer_ids[1], !.pc = "assert"])
    /\ UNCHANGED <<document, run, new_id, y_position, new_nodes, hashorder, written>>

\* update_layer, lines 34-42: renumber the surviving nodes of the network.
LayerSetup ==
    /\ Running
    /\ Top.pc = "layer"
    /\ LET network == Top.data.Layer.network
           nodes == SetOrder(hashorder, Surviving(network))
           new_ids == ZipIds(nodes, new_id)
           output_node == OutputNodeOf(network)
       IN /\ stack' = SetTop([Top EXCEPT !.network = network,
                                         !.nodes = nodes,
                                         !.new_ids = new_ids,
                                         !.shift_left = output_node.metadata.position[1],
                                         !.output = new_ids[output_node.inputs[1].Node.node_id],
                                         !.k = 1,
                                         !.pc = "nodes"])
          /\ new_id' = AfterZip(new_id, Len(nodes))
    /\ UNCHANGED <<document, run, mpc, y_position, new_nodes, hashorder, written>>

\* update_layer, lines 44-73: one iteration of the loop over the nodes.
LayerNode ==
    /\ Running
    /\ Top.pc = "nodes"
    /\ LET f == Top
           old_id == f.nodes[f.k]
           n0 == f.network.nodes[old_id]
           n1 == TransformFix([n0 EXCEPT !.inputs = RewriteInputs(@, f.new_ids)])
           insert == n1.name = "Shape" /\ ~HasCull(f.network, f.nodes)
           shape == new_id
           copy == ShapeCopy(n1, f.y, f.shift_left, f.indent)
           n2 == IF insert THEN CullOf(copy, shape, f.shift_left, f.indent) ELSE n1
           node == Place(n2, f.y, f.shift_left, f.indent)
           emitted == IF insert THEN Put(new_nodes, Str(shape), copy) ELSE new_nodes
       IN /\ new_nodes' = Put(emitted, Str(f.new_ids[ToInt(old_id)]), node)
          /\ new_id' = IF insert THEN new_id + 1 ELSE new_id
          /\ stack' = SetTop([f EXCEPT !.network.nodes[old_id] = node,
                                       !.k = f.k + 1,
                                       !.pc = IF f.k = Len(f.nodes) THEN "assert" ELSE "nodes"])
    /\ UNCHANGED <<document, run, mpc, y_position, hashorder, written>>

\* update_layer, lines 77-339: the assertion, then the Layer wrapper node is
\* stored under layer_node_id. A failed assertion aborts the process.
Wrap ==
    /\ Running
    /\ Top.pc = "assert"
    /\ IF Top.output = None \/ Str(Top.output) \in DOMAIN new_nodes
       THEN /\ new_nodes' = Put(new_nodes, Str(Top.layer_node_id),
                                LayerWrapper(Top.output, Top.next_id, Top.indent, Top.y))
            /\ stack' = SetTop([Top EXCEPT !.pc = "return"])
            /\ mpc' = mpc
       ELSE mpc' = "aborted" /\ UNCHANGED <<new_nodes, stack>>
    /\ UNCHANGED <<document, run, new_id, y_position, hashorder, written>>

\* update_layer returns: a Folder caller goes on with its next loop iteration.
Return ==
    /\ Running
    /\ Top.pc = "return"
    /\ LET rest == SubSeq(stack, 1, Len(stack) - 1)
       IN stack' = IF rest = <<>> THEN rest
                   ELSE [rest EXCEPT ![Len(rest)].index = @ + 1]
    /\ UNCHANGED <<document, run, mpc, new_id, y_position, new_nodes, hashorder, written>>

\* migrate, lines 352-622: the root Output node is stored under "0" and the
\* document with the mapping is written out.
MigrateFinish ==
    /\ mpc = "running"
    /\ stack = <<>>
    /\ new_nodes' = Put(new_nodes, "0", OutputNode)
    /\ written' = Append(written, new_nodes')
    /\ mpc' = "idle"
    /\ UNCHANGED <<document, run, new_id, y_position, stack, hashorder>>

Next ==
    \/ MigrateStart
    \/ Enter
    \/ FolderReserve
    \/ FolderCall
    \/ FolderOutput
    \/ LayerSetup
    \/ LayerNode
    \/ Wrap
    \/ Return
    \/ MigrateFinish

Spec == Init /\ [][Next]_vars

\* ------------------------------------------------------- shared vocabulary
\* A migrate run has completed and its mapping has been written out.
Done == mpc = "idle" /\ run >= 1

IsLayerFrame(f) == "Layer" \in DOMAIN f.data

IsFolderFrame(f) == "Folder" \in DOMAIN f.data

\* The top call has stored its wrapper and is about to return.
Returning == Running /\ Top.pc = "return"

X(node) == node.metadata.position[1]

\* The keys of the nodes stored by the call of frame f: every call draws its
\* own Y from the position generator and gives it to each node it stores.
EmittedBy(f) == {k \in DOMAIN new_nodes : new_nodes[k].metadata.position[2] = f.y}

\* The key under which the call of Layer frame f stored the node of old key.
NewKey(f, old_id) == Str(f.new_ids[ToInt(old_id)])

OriginalShapes(f) ==
    {k \in Surviving(f.data.Layer.network) : f.data.Layer.network.nodes[k].name = "Shape"}

OriginalCulls(f) ==
    {k \in Surviving(f.data.Layer.network) : f.data.Layer.network.nodes[k].name = "Cull"}

\* The node stored for old key is a Cull whose single input is a stored node
\* named Shape under an id that is neither a renumbered id nor the wrapper's.
CullInserted(f, old_id) ==
    LET cull == new_nodes[NewKey(f, old_id)]
    IN /\ cull.name = "Cull"
       /\ Len(cull.inputs) = 1
       /\ "Node" \in DOMAIN cull.inputs[1]
       /\ LET d == cull.inputs[1].Node.node_id
          IN /\ Str(d) \in DOMAIN new_nodes
             /\ new_nodes[Str(d)].name = "Shape"
             /\ d \notin Range(f.new_ids)
             /\ d # f.layer_node_id

DuplicateOf(f, old_id) == new_nodes[Str(new_nodes[NewKey(f, old_id)].inputs[1].Node.node_id)]

\* ----------------------------------------------------------------- claims

\* C1: when a migrate run has completed (the first or a later one), every
\* {"Node": {"node_id": n}} input of every node of new_nodes has str(n) as a
\* key of new_nodes.
C1_NoDanglingReferences ==
    Done =>
        \A k \in DOMAIN new_nodes :
            \A i \in DOMAIN new_nodes[k].inputs :
                "Node" \in DOMAIN new_nodes[k].inputs[i]
                    => Str(new_nodes[k].inputs[i].Node.node_id) \in DOMAIN new_nodes

\* C1 witness: a later run has completed with an inserted Shape duplicate and
\* a wrapper that references the sibling below it.
C1_Witness ==
    /\ Done
    /\ run = NumRuns
    /\ \E k \in DOMAIN new_nodes : new_nodes[k].name = "Cull"
    /\ \E k \in DOMAIN new_nodes :
          new_nodes[k].name = "Layer" /\ "Node" \in DOMAIN new_nodes[k].inputs[8]

\* C2 (as claimed): two completed runs on the same document wrote the same
\* mapping, whatever order the sets of surviving node keys were iterated in.
C2_RunsIdentical == Len(written) = NumRuns => written[1] = written[2]

\* C3: within a run every step that stores into new_nodes only adds keys (no
\* stored entry is replaced), each added key is "0" or str of an id >= 42
\* already drawn from the generator, and as many keys are added as ids stored.
C3_NoKeyAssignedTwice ==
    [][(mpc = "running" /\ new_nodes' # new_nodes) =>
          LET added == (DOMAIN new_nodes') \ (DOMAIN new_nodes)
          IN /\ \A k \in DOMAIN new_nodes :
                   k \in DOMAIN new_nodes' /\ new_nodes'[k] = new_nodes[k]
             /\ Cardinality(added) = 1 + (new_id' - new_id)
             /\ \A k \in added :
                   \/ k = "0" /\ stack = <<>>
                   \/ \E n \in FirstId..(new_id' - 1) : k = Str(n)]_vars

\* C3 witness: a run has completed after storing a root wrapper, child
\* wrappers, renumbered nodes and an inserted Shape duplicate.
C3_Witness ==
    /\ Done
    /\ Cardinality(DOMAIN new_nodes) >= 9
    /\ \E k \in DOMAIN new_nodes : new_nodes[k].name = "Cull"

\* The wrappers visited from id by following the last input of each.
RECURSIVE ChainFrom(_, _)
ChainFrom(id, fuel) ==
    IF fuel = 0 \/ Str(id) \notin DOMAIN new_nodes THEN <<>>
    ELSE IF new_nodes[Str(id)].name # "Layer" THEN <<>>
    ELSE LET last == new_nodes[Str(id)].inputs[8]
         IN <<id>> \o (IF "Node" \in DOMAIN last
                       THEN ChainFrom(last.Node.node_id, fuel - 1)
                       ELSE <<>>)

\* C4: when a call on a Folder with N >= 1 children returns, the chain from
\* the Folder's output along the last inputs visits each child's wrapper
\* once and ends at a wrapper whose last input is the empty GraphicGroup.
C4_NextChainVisitsEveryChild ==
    (Returning /\ IsFolderFrame(Top) /\ Len(Top.data.Folder.layers) >= 1) =>
        LET n == Len(Top.data.Folder.layers)
            chain == ChainFrom(Top.output, n + 1)
        IN /\ Len(chain) = n
           /\ Range(chain) = Range(Top.new_layer_ids)
           /\ Cardinality(Range(chain)) = n
           /\ new_nodes[Str(chain[n])].inputs[8] = EmptyGroup

\* C4 witness: a call on a Folder with MaxChildren children is returning.
C4_Witness ==
    /\ Returning
    /\ IsFolderFrame(Top)
    /\ Len(Top.data.Folder.layers) = MaxChildren
    /\ Len(ChainFrom(Top.output, MaxChildren + 1)) = MaxChildren

\* C5 (as claimed): the reservation for a Folder with N children yields N
\* ids and advances the id generator exactly N times.
C5_ReserveAdvancesN ==
    [][(Running /\ Top.pc = "reserve") =>
          /\ Len(stack'[Len(stack')].new_layer_ids) = Len(Top.data.Folder.layers)
          /\ new_id' = new_id + Len(Top.data.Folder.layers)]_vars

\* C5 (amended): the reservation for a Folder with N children yields the N
\* consecutive ids from the generator's current value, in order, and advances
\* the generator N + 1 times: one drawn id is discarded.
C5_ReserveAdvancesNPlusOne ==
    [][(Running /\ Top.pc = "reserve") =>
          LET n == Len(Top.data.Folder.layers)
          IN /\ stack'[Len(stack')].new_layer_ids = [i \in 1..n |-> new_id + i - 1]
             /\ new_id' = new_id + n + 1]_vars

\* C5 witness: a Folder with children has just reserved their ids.
C5_Witness ==
    /\ Running
    /\ Top.pc = "loop"
    /\ Top.index = 0
    /\ Len(Top.new_layer_ids) = MaxChildren
    /\ new_id = Top.new_layer_ids[MaxChildren] + 2

\* The case of C6: a Layer call is returning whose original network has
\* exactly one Shape node and no Cull node.
C6_Case ==
    /\ Returning
    /\ IsLayerFrame(Top)
    /\ Cardinality(OriginalShapes(Top)) = 1
    /\ OriginalCulls(Top) = {}

\* What C6 says but for the offset: the original node is stored as a Cull fed
\* by a duplicate named Shape under a new id, and these two are the only
\* Shape or Cull nodes the call stored, next to the other nodes and the wrapper.
C6_Structure(f) ==
    LET s == CHOOSE k \in OriginalShapes(f) : TRUE
    IN /\ CullInserted(f, s)
       /\ {k \in EmittedBy(f) : new_nodes[k].name \in {"Shape", "Cull"}}
            = {NewKey(f, s), Str(new_nodes[NewKey(f, s)].inputs[1].Node.node_id)}
       /\ Cardinality(EmittedBy(f)) = Len(f.nodes) + 2

C6_Offset(f) ==
    LET s == CHOOSE k \in OriginalShapes(f) : TRUE
    IN X(new_nodes[NewKey(f, s)]) - X(DuplicateOf(f, s))

\* C6 (as claimed): the two nodes are shift_left + 8 + indent apart.
C6_OffsetIsShiftPlusGap ==
    C6_Case =>
        /\ C6_Structure(Top)
        /\ \/ C6_Offset(Top) = Top.shift_left + CullGap + Top.indent
           \/ C6_Offset(Top) = -(Top.shift_left + CullGap + Top.indent)

\* C6 (amended): for a Layer network with exactly one Shape and no Cull the
\* original is stored as a Cull fed by a Shape duplicate under a new id, and
\* the duplicate's final X is exactly 8 less than the Cull's.
C6_OffsetIsGap ==
    C6_Case => (C6_Structure(Top) /\ C6_Offset(Top) = CullGap)

\* C6 witness: such a Layer call is returning, at a positive indentation.
C6_Witness == C6_Case /\ Top.indent > 0 /\ C6_Structure(Top)

\* The X of the node that the first input of the output node references.
FeedingX(network) ==
    X(network.nodes[Str(OutputNodeOf(network).inputs[1].Node.node_id)])

\* C7 (as claimed): the shift is the X of the node feeding the output node,
\* and every node stored from the network ends at original_X - (shift + indent).
C7_ShiftIsFeedingNodeX ==
    (Returning /\ IsLayerFrame(Top)) =>
        LET net == Top.data.Layer.network
        IN /\ Top.shift_left = FeedingX(net)
           /\ \A old \in Surviving(net) :
                 X(new_nodes[NewKey(Top, old)]) = X(net.nodes[old]) - (FeedingX(net) + Top.indent)

\* C7 (amended): the shift is the X of the network's declared output node
\* itself; every renumbered node ends at original_X - (shift + indent), and
\* an inserted Shape duplicate ends at original_X - (shift + 8 + indent).
C7_ShiftIsOutputNodeX ==
    (Returning /\ IsLayerFrame(Top)) =>
        LET net == Top.data.Layer.network
            shift == X(OutputNodeOf(net))
        IN /\ Top.shift_left = shift
           /\ \A old \in Surviving(net) :
                 /\ X(new_nodes[NewKey(Top, old)]) = X(net.nodes[old]) - (shift + Top.indent)
                 /\ new_nodes[NewKey(Top, old)].name # net.nodes[old].name
                       => X(DuplicateOf(Top, old))
                            = X(net.nodes[old]) - (shift + CullGap + Top.indent)

\* C7 witness: a Layer call at a positive indentation is returning after
\* storing renumbered nodes and a Shape duplicate.
C7_Witness ==
    /\ Returning
    /\ IsLayerFrame(Top)
    /\ Top.indent > 0
    /\ Len(Top.nodes) >= 2
    /\ \E old \in Surviving(Top.data.Layer.network) : CullInserted(Top, old)

\* C8 (as claimed): when the original network of a Layer has no Cull node,
\* every one of its Shape nodes gets the Cull insertion.
C8_EveryShapeGetsCull ==
    (Returning /\ IsLayerFrame(Top) /\ OriginalCulls(Top) = {}) =>
        \A s \in OriginalShapes(Top) : CullInserted(Top, s)

\* A Folder frame at stack position i is inside its loop, in the call of a child.
InChildCall(i) == i < Len(stack) /\ IsFolderFrame(stack[i]) /\ stack[i].pc = "loop"

\* C9 (as claimed): declared child c_p is called with its own reserved id
\* r_p and next_id r_(p+1), the last declared child with next_id None, and
\* the Folder's output is r_0.
C9_ChildGetsOwnReservedId ==
    /\ \A i \in DOMAIN stack :
          InChildCall(i) =>
              LET layers == stack[i].data.Folder.layers
                  r == stack[i].new_layer_ids
                  c == stack[i + 1]
              IN \E p \in DOMAIN layers :
                    /\ c.data = layers[p].data
                    /\ c.layer_node_id = r[p]
                    /\ c.next_id = IF p < Len(layers) THEN r[p + 1] ELSE None
    /\ (Returning /\ IsFolderFrame(Top)) => Top.output = Top.new_layer_ids[1]

\* C9 (amended): ids r_0..r_(N-1) are reserved in increasing order; the
\* children are called in reverse declared order and the j-th call (the
\* declared child c_(N-1-j)) gets r_j with next_id r_(j+1), so the first
\* declared child gets next_id None and the Folder's output r_0 is the id
\* given to the last declared child.
C9_ReversedChildGetsReservedId ==
    /\ \A i \in DOMAIN stack :
          InChildCall(i) =>
              LET layers == stack[i].data.Folder.layers
                  n == Len(layers)
                  r == stack[i].new_layer_ids
                  j == stack[i].index
                  c == stack[i + 1]
              IN /\ \A q \in 1..(n - 1) : r[q + 1] = r[q] + 1
                 /\ c.data = layers[n - j].data
                 /\ c.layer_node_id = r[j + 1]
                 /\ c.next_id = IF j + 1 < n THEN r[j + 2] ELSE None
                 /\ c.indent = stack[i].indent + IndentStep
    /\ (Returning /\ IsFolderFrame(Top)) => Top.output = Top.new_layer_ids[1]

\* C9 witness: a Folder with two different children is in the call of its
\* first declared child, the last one visited.
C9_Witness ==
    \E i \in DOMAIN stack :
        /\ InChildCall(i)
        /\ Len(stack[i].data.Folder.layers) = MaxChildren
        /\ stack[i].index = MaxChildren - 1
        /\ stack[i].data.Folder.layers[1] # stack[i].data.Folder.layers[MaxChildren]
        /\ stack[i + 1].next_id = None

\* C10 (as claimed): no call on a Folder or Layer fails, an empty Folder
\* included, and a returning call has stored a Layer wrapper under
\* layer_node_id whose first input is the empty GraphicGroup when output is None.
C10_EveryCallCompletes ==
    /\ mpc # "aborted"
    /\ Returning =>
          /\ Str(Top.layer_node_id) \in DOMAIN new_nodes
          /\ new_nodes[Str(Top.layer_node_id)].name = "Layer"
          /\ Top.output = None => new_nodes[Str(Top.layer_node_id)].inputs[1] = EmptyGroup

====
